---- MODULE Spec2Model ----
(***************************************************************************)
(* Strategy-parameterised binary search tree (project2).                   *)
(*                                                                         *)
(* The node graph is an arena: a function from node identities to node     *)
(* records.  An Rc<RefCell<TreeNode>> is a node identity, a Weak<..> parent *)
(* back-reference is a node identity that may no longer be live, and an    *)
(* empty Tree / Weak::new() is None.  Between public operations the arena  *)
(* is kept in a canonical numbering (identity = key currently held), which *)
(* is a renaming of pointers and changes nothing the program can observe.  *)
(*                                                                         *)
(* Red-Black and Unbalanced run on the generic engine (tree/ops.rs,        *)
(* tree/node.rs, tree/inspect.rs); AVL runs on the branch-trait engine     *)
(* (treenew/helper.rs with avlnew.rs).                                     *)
(***************************************************************************)
EXTENDS Integers, FiniteSets, Sequences, TLC

\* ---------------------------------------------------------------- bounds
MaxKey == 6
MaxKeyAVL == 8
MaxKeyQuery == 5
MaxKeyInspect == 4

Keys == 1..MaxKey
KeysAVL == 1..MaxKeyAVL
KeysQuery == 1..MaxKeyQuery
KeysInspect == 1..MaxKeyInspect

\* ------------------------------------------------------------- constants
None == 0
Left == "Left"
Right == "Right"
NoPath == "Equal"
Red == "Red"
Black == "Black"
NoBalance == "Unit"

VARIABLES policy, build, nodes, root, fault, last

vars == <<policy, build, nodes, root, fault, last>>

\* ------------------------------------------------------------- TreePath
reflect(d) == IF d = Left THEN Right ELSE Left

Max(a, b) == IF a >= b THEN a ELSE b

\* ------------------------------------------------------------- TreeBalance
\* U::new(): balance-state of a freshly attached non-root node
new_balance(pol) == IF pol = "RedBlack" THEN Red ELSE NoBalance

\* U::new_root(): balance-state of a node created as the whole tree
new_root_balance(pol) == IF pol = "RedBlack" THEN Black ELSE NoBalance

\* ------------------------------------------------------------- TreeNode
new_with(pol, key) ==
    [key |-> key, height |-> 1, leaves |-> 1, parent |-> None,
     left |-> None, right |-> None, balance |-> new_root_balance(pol)]

\* new_with_parent that leaves the parent reference empty
new_with_parent_mut(pol, key, parent) ==
    [key |-> key, height |-> 1, leaves |-> 1, parent |-> None,
     left |-> None, right |-> None, balance |-> new_balance(pol)]

new_with_parent(pol, key, parent) ==
    [key |-> key, height |-> 1, leaves |-> 1, parent |-> parent,
     left |-> None, right |-> None, balance |-> new_balance(pol)]

get_child(ar, id, pos) == IF pos = Left THEN ar[id].left ELSE ar[id].right

\* *node.get_joint(pos) = t
set_joint(ar, id, pos, t) ==
    IF pos = Left THEN [ar EXCEPT ![id].left = t] ELSE [ar EXCEPT ![id].right = t]

\* Weak::upgrade(&self.parent): None when the referent is gone
get_parent(ar, id) == IF ar[id].parent \in DOMAIN ar THEN ar[id].parent ELSE None

get_height(ar, id) == IF id = None THEN 0 ELSE ar[id].height

get_leaves(ar, id) == IF id = None THEN 0 ELSE ar[id].leaves

\* update_leaves without the floor of 1
update_leaves_mut(ar, id) ==
    [ar EXCEPT ![id].leaves = get_leaves(ar, ar[id].left) + get_leaves(ar, ar[id].right)]

update_leaves(ar, id) ==
    [ar EXCEPT ![id].leaves =
        Max(1, get_leaves(ar, ar[id].left) + get_leaves(ar, ar[id].right))]

\* update_height that looks at the left child only
update_height_mut(ar, id) ==
    [ar EXCEPT ![id].height = get_height(ar, ar[id].left) + 1]

update_height(ar, id) ==
    [ar EXCEPT ![id].height =
        Max(get_height(ar, ar[id].left), get_height(ar, ar[id].right)) + 1]

update(ar, id) == update_height(update_leaves(ar, id), id)

\* prune that leaves the detached node's parent reference as it was
prune_mut(ar, id, pos) ==
    [ar |-> set_joint(ar, id, pos, None), pruned |-> get_child(ar, id, pos)]

\* Detach the child at pos, clearing the detached node's parent reference
prune(ar, id, pos) ==
    LET detach(c, a1) ==
            [ar |-> IF c # None THEN [a1 EXCEPT ![c].parent = None] ELSE a1,
             pruned |-> c]
    IN  detach(get_child(ar, id, pos), set_joint(ar, id, pos, None))

\* search with the Greater and Less arms exchanged
search_mut(ar, id, key) ==
    IF key = ar[id].key THEN NoPath
    ELSE IF key > ar[id].key THEN Left ELSE Right

\* key.cmp(&self.key): NoPath on Equal, else the side to continue on
search(ar, id, key) ==
    IF key = ar[id].key THEN NoPath
    ELSE IF key > ar[id].key THEN Right ELSE Left

\* self.search(&child.key); the caller unwraps it
find_placement(ar, id, child) == search(ar, id, ar[child].key)

\* ------------------------------------------------------------- heap threading
\* A heap in flight: the arena, the panic raised so far (if any), and the
\* operation's record: rebalance callbacks made, inspector rotate calls,
\* primitive rotations, and whether a two-child delete swapped a key in;
\* anchored while the loop has just moved to a child, revisits is the number
\* of such moves, stray whether a callback made right after one asked for
\* anything but Root.
Heap(ar) == [ar |-> ar, fault |-> "none", calls |-> 0, rots |-> 0, prims |-> 0,
             swapped |-> FALSE, anchored |-> FALSE, revisits |-> 0, stray |-> FALSE]

Fail(h, msg) == [h EXCEPT !.fault = msg]

Ok(h) == h.fault = "none"

\* ------------------------------------------------------------- NodeOffset
OffRoot == [kind |-> "Root", path |-> NoPath]
OffParent == [kind |-> "Parent", path |-> NoPath]
OffChild(path) == [kind |-> "Child", path |-> path]

\* NodeInspector::into_position: the node the inspector is anchored at and
\* the continuation instruction
Position(h, node, next) == [h |-> h, node |-> node, next |-> next]

\* ------------------------------------------------------------- rotation primitive
\* tree/ops.rs bst_rotate: brings up p's child along direction; only p's
\* caches are recomputed here
bst_rotate(h, p, direction) ==
    LET \* x takes p's place under the grandparent
        anchor(grandparent, x, h1, dir) ==
            IF dir = NoPath
            THEN [h |-> Fail(h1, "find_placement: unwrap on equal keys"), node |-> x]
            ELSE [h |-> [h1 EXCEPT !.ar = [set_joint(@, grandparent, dir, x)
                                              EXCEPT ![x].parent = grandparent]],
                  node |-> x]
        attach(grandparent, x, h1) ==
            IF grandparent = None THEN [h |-> h1, node |-> x]
            ELSE anchor(grandparent, x, h1, find_placement(h1.ar, grandparent, x))
        \* the grandchild moves under p, p moves under x
        adopt(grandchild, a) ==
            IF grandchild # None THEN [a EXCEPT ![grandchild].parent = p] ELSE a
        link(x, grandchild, a2) ==
            [set_joint(update(set_joint(a2, p, direction, grandchild), p),
                       x, reflect(direction), p) EXCEPT ![p].parent = x]
        swing(grandparent, x, pr) ==
            attach(grandparent, x,
                   [h EXCEPT !.ar = link(x, pr.pruned, adopt(pr.pruned, pr.ar)),
                             !.prims = @ + 1])
        lift(grandparent, x) ==
            IF x = None
            THEN [h |-> Fail(h, "bst_rotate: unwrap on empty child"), node |-> p]
            ELSE swing(grandparent, x,
                       prune(prune(h.ar, p, direction).ar, x, reflect(direction)))
    IN  lift(get_parent(h.ar, p), get_child(h.ar, p, direction))

\* rotate that counts the call and leaves the links alone
rotate_mut(h, node, c0, c1) == [h |-> [h EXCEPT !.rots = @ + 1], node |-> node]

\* rotate that never rotates the child first
rotate_single_mut(h, node, c0, c1) == bst_rotate([h EXCEPT !.rots = @ + 1], node, c0)

\* tree/inspect.rs NodeInspector::rotate(case)
rotate(h, node, c0, c1) ==
    LET first(h0, around) ==
            IF c0 # c1
            THEN IF around = None
                 THEN Fail(h0, "rotate: unwrap on empty child")
                 ELSE bst_rotate(h0, around, c1).h
            ELSE h0
        second(h1) ==
            IF Ok(h1) THEN bst_rotate(h1, node, c0) ELSE [h |-> h1, node |-> node]
    IN  second(first([h EXCEPT !.rots = @ + 1], get_child(h.ar, node, c0)))

\* ------------------------------------------------------------- Red-Black policy
\* map_or that reads an absent child as Red
color_or_black_mut(ar, id) == IF id = None THEN Red ELSE ar[id].balance

\* inspect_child(..).map_or(Black, |n| n.inspect_balance(|b| b.0))
color_or_black(ar, id) == IF id = None THEN Black ELSE ar[id].balance

\* set_balance that paints the opposite colour
set_balance_mut(ar, id, c) == [ar EXCEPT ![id].balance = IF c = Red THEN Black ELSE Red]

set_balance(ar, id, c) == [ar EXCEPT ![id].balance = c]

\* update_balance on an inspected child that writes nothing
recolor_child_mut(h, node, path, c) == h

\* inspect_child(path).unwrap().update_balance(|b| b.0 = c)
recolor_child(h, node, path, c) ==
    LET paint(ch) ==
            IF ~Ok(h) THEN h
            ELSE IF ch = None THEN Fail(h, "inspect_child: unwrap on None")
            ELSE [h EXCEPT !.ar = set_balance(@, ch, c)]
    IN  paint(get_child(h.ar, node, path))

\* update_balance on the inspected node that writes nothing
recolor_mut(h, node, c) == h

\* update_balance on the inspected node itself
recolor(h, node, c) == IF Ok(h) THEN [h EXCEPT !.ar = set_balance(@, node, c)] ELSE h

rb_rebalance_insert(h, node, p0, p1) ==
    LET ar == h.ar
        \* parent and uncle turned Black, the node Red unless it is the root
        flip(h2) == IF get_parent(ar, node) # None THEN recolor(h2, node, Red) ELSE h2
        \* after the rotation: the new subtree root Black, the old one Red
        rotated(r) ==
            Position(recolor(recolor_child(r.h, r.node, reflect(p0), Red), r.node, Black),
                     r.node, OffRoot)
        decide(xcolor, pcolor, ucolor) ==
            IF ar[node].balance = Red /\ pcolor = Red
            THEN Position(h, node, OffParent)
            ELSE IF xcolor = Black
            THEN Position(h, node, OffRoot)
            ELSE IF pcolor = Red /\ ucolor = Red
            THEN Position(flip(recolor_child(recolor_child(h, node, Right, Black),
                                             node, Left, Black)),
                          node, OffParent)
            ELSE IF pcolor = Red
            THEN rotated(rotate(h, node, p0, p1))
            ELSE Position(h, node, OffRoot)
        inspect(pnode) ==
            IF pnode = None
            THEN Position(Fail(h, "inspect_child: unwrap on None"), node, OffRoot)
            ELSE decide(color_or_black(ar, get_child(ar, pnode, p1)),
                        ar[pnode].balance,
                        color_or_black(ar, get_child(ar, node, reflect(p0))))
    IN  inspect(get_child(ar, node, p0))

\* rebalance_delete that leaves a Black sibling without Red children Black
rb_rebalance_delete_mut(h, node, xpath, popped_balance) ==
    LET ar == h.ar
        spath == reflect(xpath)
        \* the sibling's Red child, the outermost (inline) one first
        victim(snode, inline_color, elbow_color) ==
            IF snode = None THEN NoPath
            ELSE IF inline_color = Red THEN spath
            ELSE IF elbow_color = Red THEN xpath
            ELSE NoPath
        \* after the rotation: both children Black, the subtree root coloured as p was
        rotated_black(r, pcolor) ==
            Position(recolor(recolor_child(recolor_child(r.h, r.node, Right, Black),
                                           r.node, Left, Black),
                             r.node, pcolor),
                     r.node, OffRoot)
        \* Red sibling: it comes up Black, p goes down Red, the deficit stays below p
        rotated_red(r) ==
            Position(recolor(recolor_child(r.h, r.node, xpath, Red), r.node, Black),
                     r.node, OffChild(xpath))
        \* no Red nephew: the deficit moves up unless p was Red
        push(h1, pcolor) ==
            IF pcolor = Black
            THEN Position(h1, node, OffParent)
            ELSE Position(recolor(h1, node, Black), node, OffRoot)
        decide(snode, scolor, vpath, xcolor, pcolor) ==
            IF xcolor = Black
            THEN IF scolor = Black
                 THEN IF vpath # NoPath
                      THEN rotated_black(rotate(h, node, spath, vpath), pcolor)
                      ELSE push(h, pcolor)
                 ELSE rotated_red(rotate(h, node, spath, spath))
            ELSE Position(recolor_child(h, node, xpath, Black), node, OffRoot)
        inspect(snode) ==
            decide(snode, color_or_black(ar, snode),
                   victim(snode,
                          IF snode = None THEN Black
                          ELSE color_or_black(ar, get_child(ar, snode, spath)),
                          IF snode = None THEN Black
                          ELSE color_or_black(ar, get_child(ar, snode, xpath))),
                   color_or_black(ar, get_child(ar, node, xpath)),
                   ar[node].balance)
    IN  IF popped_balance = Red THEN Position(h, node, OffRoot)
        ELSE inspect(get_child(ar, node, spath))

rb_rebalance_delete(h, node, xpath, popped_balance) ==
    LET ar == h.ar
        spath == reflect(xpath)
        \* the sibling's Red child, the outermost (inline) one first
        victim(snode, inline_color, elbow_color) ==
            IF snode = None THEN NoPath
            ELSE IF inline_color = Red THEN spath
            ELSE IF elbow_color = Red THEN xpath
            ELSE NoPath
        \* after the rotation: both children Black, the subtree root coloured as p was
        rotated_black(r, pcolor) ==
            Position(recolor(recolor_child(recolor_child(r.h, r.node, Right, Black),
                                           r.node, Left, Black),
                             r.node, pcolor),
                     r.node, OffRoot)
        \* Red sibling: it comes up Black, p goes down Red, the deficit stays below p
        rotated_red(r) ==
            Position(recolor(recolor_child(r.h, r.node, xpath, Red), r.node, Black),
                     r.node, OffChild(xpath))
        \* no Red nephew: the deficit moves up unless p was Red
        push(h1, pcolor) ==
            IF pcolor = Black
            THEN Position(h1, node, OffParent)
            ELSE Position(recolor(h1, node, Black), node, OffRoot)
        decide(snode, scolor, vpath, xcolor, pcolor) ==
            IF xcolor = Black
            THEN IF scolor = Black
                 THEN IF vpath # NoPath
                      THEN rotated_black(rotate(h, node, spath, vpath), pcolor)
                      ELSE push(IF snode # None THEN recolor(h, snode, Red) ELSE h, pcolor)
                 ELSE rotated_red(rotate(h, node, spath, spath))
            ELSE Position(recolor_child(h, node, xpath, Black), node, OffRoot)
        inspect(snode) ==
            decide(snode, color_or_black(ar, snode),
                   victim(snode,
                          IF snode = None THEN Black
                          ELSE color_or_black(ar, get_child(ar, snode, spath)),
                          IF snode = None THEN Black
                          ELSE color_or_black(ar, get_child(ar, snode, xpath))),
                   color_or_black(ar, get_child(ar, node, xpath)),
                   ar[node].balance)
    IN  IF popped_balance = Red THEN Position(h, node, OffRoot)
        ELSE inspect(get_child(ar, node, spath))

\* ------------------------------------------------------------- Unbalanced policy
\* rebalance_insert that rotates the parent up before returning Root
unbalanced_rebalance_insert_mut(h, node, p0, p1) ==
    LET rotated(r) == Position(r.h, r.node, OffRoot)
    IN  rotated(rotate(h, node, p0, p0))

unbalanced_rebalance_insert(h, node, p0, p1) == Position(h, node, OffRoot)

unbalanced_rebalance_delete(h, node, xpath, popped_balance) == Position(h, node, OffRoot)

\* ------------------------------------------------------------- a revisiting policy
\* An implementor of TreeBalance whose insert callback answers Child: on an
\* elbow (the new node on the inner side of its parent) it asks to continue
\* at the parent-side child; otherwise it stops.  Its delete callback and
\* balance-state are those of the Unbalanced policy.
revisit_rebalance_insert(h, node, p0, p1) ==
    Position(h, node, IF p0 # p1 THEN OffChild(p0) ELSE OffRoot)

\* ------------------------------------------------------------- policy dispatch (U::...)
rebalance_insert(pol, h, node, p0, p1) ==
    LET hc == [h EXCEPT !.calls = @ + 1]
    IN  IF pol = "RedBlack" THEN rb_rebalance_insert(hc, node, p0, p1)
        ELSE IF pol = "Revisit" THEN revisit_rebalance_insert(hc, node, p0, p1)
        ELSE unbalanced_rebalance_insert(hc, node, p0, p1)

\* dispatch that tells the Red-Black callback the popped node was Black
rebalance_delete_mut(pol, h, node, xpath, popped_balance) ==
    LET hc == [h EXCEPT !.calls = @ + 1]
    IN  IF pol = "RedBlack" THEN rb_rebalance_delete(hc, node, xpath, Black)
        ELSE unbalanced_rebalance_delete(hc, node, xpath, popped_balance)

rebalance_delete(pol, h, node, xpath, popped_balance) ==
    LET hc == [h EXCEPT !.calls = @ + 1]
    IN  IF pol = "RedBlack" THEN rb_rebalance_delete(hc, node, xpath, popped_balance)
        ELSE unbalanced_rebalance_delete(hc, node, xpath, popped_balance)

\* ------------------------------------------------------------- generic engine
\* Rc::new(RefCell::new(..)): a new node identity.  In the canonical
\* numbering the inserted key is free; otherwise any free identity.
fresh_id(ar, key) ==
    IF key \notin DOMAIN ar THEN key
    ELSE CHOOSE i \in 1..(Cardinality(DOMAIN ar) + 1) : i \notin DOMAIN ar

\* A Tree slot: the handle held by owner's joint at path, or the root handle
Joint(owner, path) == [owner |-> owner, path |-> path]
RootHandle == [owner |-> None, path |-> NoPath]

slot_get(ar, rt, slot) ==
    IF slot.owner = None THEN rt ELSE get_child(ar, slot.owner, slot.path)

\* tree/ops.rs bst_pop(tree): remove the node held by the slot when it has
\* fewer than two children, putting its child (if any) in the slot
bst_pop(ar, rt, slot) ==
    LET \* the popped node is consumed (Rc::try_unwrap, TreeNode::pop)
        consume(x, suc, a2) ==
            [popped |-> TRUE, ar |-> [i \in DOMAIN a2 \ {x} |-> a2[i]],
             root |-> IF slot.owner = None THEN suc ELSE rt,
             key |-> ar[x].key, balance |-> ar[x].balance]
        hang(suc, a1) ==
            IF slot.owner = None THEN a1 ELSE set_joint(a1, slot.owner, slot.path, suc)
        adopt(x, suc, a) ==
            IF suc # None THEN [a EXCEPT ![suc].parent = get_parent(a, x)] ELSE a
        replace(x, pr2) ==
            consume(x, pr2.pruned, hang(pr2.pruned, adopt(x, pr2.pruned, pr2.ar)))
        either(x, pr1) == IF pr1.pruned = None THEN prune(pr1.ar, x, Left) ELSE pr1
        take(x) ==
            IF ar[x].right # None /\ ar[x].left # None
            THEN [popped |-> FALSE, ar |-> ar, root |-> rt, key |-> None,
                  balance |-> NoBalance]
            ELSE replace(x, either(x, prune(ar, x, Right)))
    IN  take(slot_get(ar, rt, slot))

\* replace_key that hands back the key written instead of the key replaced
replace_key_mut(h, id, key) ==
    LET ar == h.ar
        l == ar[id].left
        r == ar[id].right
    IN  IF l # None /\ key < ar[l].key
        THEN [h |-> Fail(h, "replace_key: assertion failed (left)"), key |-> None]
        ELSE IF r # None /\ key > ar[r].key
        THEN [h |-> Fail(h, "replace_key: assertion failed (right)"), key |-> None]
        ELSE [h |-> [h EXCEPT !.ar = [ar EXCEPT ![id].key = key]], key |-> key]

\* TreeNode::replace_key: the two assert_ne! and the swap
replace_key(h, id, key) ==
    LET ar == h.ar
        l == ar[id].left
        r == ar[id].right
    IN  IF l # None /\ key < ar[l].key
        THEN [h |-> Fail(h, "replace_key: assertion failed (left)"), key |-> None]
        ELSE IF r # None /\ key > ar[r].key
        THEN [h |-> Fail(h, "replace_key: assertion failed (right)"), key |-> None]
        ELSE [h |-> [h EXCEPT !.ar = [ar EXCEPT ![id].key = key]], key |-> ar[id].key]

\* duplicate insert that hands back an empty tree instead of the root
insert_found_mut(ar, rt) == [h |-> Heap(ar), root |-> None]

\* bst_insert line 31: the key is already in the tree, "just return root"
insert_found(ar, rt) == [h |-> Heap(ar), root |-> rt]

\* absent-key delete that lets the kept root go and returns an empty tree
delete_not_found_mut(ar, rt) == [h |-> Heap(ar), root |-> None, ret |-> None]

\* bst_delete line 181: hit the bottom of the tree, return root and no key
delete_not_found(ar, rt) == [h |-> Heap(ar), root |-> rt, ret |-> None]

\* root delete that reports the key and hands back the tree as it was
delete_root_popped_mut(ar, rt, pop) == [h |-> Heap(ar), root |-> rt, ret |-> pop.key]

\* bst_delete line 205, DeletePosition::Root: the handle now holds the popped
\* root's child, or nothing
delete_root_popped(ar, rt, pop) == [h |-> Heap(pop.ar), root |-> pop.root, ret |-> pop.key]

\* bst_insert lines 21-45: descend to the parent of the empty slot
RECURSIVE insert_descend(_, _, _)
insert_descend(ar, p, key) ==
    LET path == search(ar, p, key)
    IN  IF path = NoPath THEN [found |-> TRUE, p |-> p, xpath |-> NoPath]
        ELSE IF get_child(ar, p, path) # None
        THEN insert_descend(ar, get_child(ar, p, path), key)
        ELSE [found |-> FALSE, p |-> p, xpath |-> path]

\* bst_insert lines 68-99: the rebalance loop
RECURSIVE insert_rebalance(_, _, _, _, _)
insert_rebalance(pol, h, r0, ppath, xpath) ==
    LET climb(h1, r, b, placement) ==
            IF b = None THEN [h |-> h1, r |-> r]
            ELSE IF placement = NoPath
            THEN [h |-> Fail(h1, "find_placement: unwrap on equal keys"), r |-> r]
            ELSE insert_rebalance(pol, h1, b, placement, ppath)
        continue(h1, r, next, b) ==
            CASE next.kind = "Root" -> [h |-> h1, r |-> r]
              [] next.kind = "Parent" ->
                    climb(h1, r, b, IF b # None THEN find_placement(h1.ar, b, r) ELSE NoPath)
              [] next.kind = "Child" ->
                    [h |-> Fail(h1, "Should not happen!"), r |-> r]
        refreshed(h1, r, next) == continue(h1, r, next, get_parent(h1.ar, r))
        step(pos) ==
            IF ~Ok(pos.h) THEN [h |-> pos.h, r |-> pos.node]
            ELSE refreshed([pos.h EXCEPT !.ar = update(@, pos.node)], pos.node, pos.next)
    IN  step(rebalance_insert(pol, h, r0, ppath, xpath))

\* the walk to the root left out: the node last rebalanced is returned
refresh_ancestors_mut(ar, r) == [ar |-> ar, r |-> r]

\* lines 103-109 / 284-290: refresh the caches of every remaining ancestor
RECURSIVE refresh_ancestors(_, _)
refresh_ancestors(ar, r) ==
    LET n == get_parent(ar, r)
    IN  IF n = None THEN [ar |-> ar, r |-> r]
        ELSE refresh_ancestors(update(ar, n), n)

bst_insert(pol, ar, rt, key) ==
    LET settle(lp_h, top) == [h |-> [lp_h EXCEPT !.ar = top.ar], root |-> top.r]
        finish(lp) ==
            IF Ok(lp.h) THEN settle(lp.h, refresh_ancestors(lp.h.ar, lp.r))
            ELSE [h |-> lp.h, root |-> rt]
        balance(d, a1, gp, ppath) ==
            IF gp = None THEN [h |-> Heap(a1), root |-> d.p]
            ELSE IF ppath = NoPath
            THEN [h |-> Fail(Heap(a1), "find_placement: unwrap on equal keys"), root |-> rt]
            ELSE finish(insert_rebalance(pol, Heap(a1), gp, ppath, d.xpath))
        placed(d, a1, gp) ==
            balance(d, a1, gp, IF gp # None THEN find_placement(a1, gp, d.p) ELSE NoPath)
        attached(d, a1) == placed(d, a1, get_parent(a1, d.p))
        attach(d, n) ==
            attached(d, update(set_joint((n :> new_with_parent(pol, key, d.p)) @@ ar,
                                         d.p, d.xpath, n), d.p))
        descend(d) ==
            IF d.found THEN insert_found(ar, rt) ELSE attach(d, fresh_id(ar, key))
        plant(n) == [h |-> Heap((n :> new_with(pol, key)) @@ ar), root |-> n]
    IN  IF rt = None THEN plant(fresh_id(ar, key))
        ELSE descend(insert_descend(ar, rt, key))

\* bst_delete lines 160-183: find the parent of the node holding key
RECURSIVE delete_descend(_, _, _, _)
delete_descend(ar, p, path, key) ==
    LET x == get_child(ar, p, path)
        next_path == IF x # None THEN search(ar, x, key) ELSE NoPath
    IN  IF x = None THEN [found |-> FALSE, p |-> p, xpath |-> path]
        ELSE IF next_path = NoPath THEN [found |-> TRUE, p |-> p, xpath |-> path]
        ELSE delete_descend(ar, x, next_path, key)

\* swap walk that keeps to the right: it pops the rightmost node of the right
\* subtree
RECURSIVE delete_swap_mut(_, _, _, _)
delete_swap_mut(h, to_swap, p, xpath) ==
    LET ar == h.ar
        xnode == get_child(ar, p, xpath)
        written(rk, balance) ==
            [h |-> rk.h, key |-> rk.key, balance |-> balance, p |-> p, xpath |-> xpath]
        popped(pop) ==
            written(replace_key([h EXCEPT !.ar = pop.ar, !.swapped = TRUE],
                                to_swap, pop.key),
                    pop.balance)
    IN  IF xnode = None
        THEN [h |-> Fail(h, "get_child: unwrap on None"), key |-> None,
              balance |-> NoBalance, p |-> p, xpath |-> xpath]
        ELSE IF ar[xnode].right = None
        THEN popped(bst_pop(ar, None, Joint(p, xpath)))
        ELSE delete_swap_mut(h, to_swap, xnode, Right)

\* swap walk that hands the up-traversal the balance-state of the target
\* instead of the popped node's
RECURSIVE delete_swap_target_mut(_, _, _, _)
delete_swap_target_mut(h, to_swap, p, xpath) ==
    LET ar == h.ar
        xnode == get_child(ar, p, xpath)
        written(rk, balance) ==
            [h |-> rk.h, key |-> rk.key, balance |-> balance, p |-> p, xpath |-> xpath]
        popped(pop) ==
            written(replace_key([h EXCEPT !.ar = pop.ar, !.swapped = TRUE],
                                to_swap, pop.key),
                    ar[to_swap].balance)
    IN  IF xnode = None
        THEN [h |-> Fail(h, "get_child: unwrap on None"), key |-> None,
              balance |-> NoBalance, p |-> p, xpath |-> xpath]
        ELSE IF ar[xnode].left = None
        THEN popped(bst_pop(ar, None, Joint(p, xpath)))
        ELSE delete_swap_target_mut(h, to_swap, xnode, Left)

\* bst_delete lines 216-244: walk to the leftmost node of the right subtree,
\* pop it and write its key into to_swap
RECURSIVE delete_swap(_, _, _, _)
delete_swap(h, to_swap, p, xpath) ==
    LET ar == h.ar
        xnode == get_child(ar, p, xpath)
        written(rk, balance) ==
            [h |-> rk.h, key |-> rk.key, balance |-> balance, p |-> p, xpath |-> xpath]
        popped(pop) ==
            written(replace_key([h EXCEPT !.ar = pop.ar, !.swapped = TRUE],
                                to_swap, pop.key),
                    pop.balance)
    IN  IF xnode = None
        THEN [h |-> Fail(h, "get_child: unwrap on None"), key |-> None,
              balance |-> NoBalance, p |-> p, xpath |-> xpath]
        ELSE IF ar[xnode].left = None
        THEN popped(bst_pop(ar, None, Joint(p, xpath)))
        ELSE delete_swap(h, to_swap, xnode, Left)

\* bst_delete lines 251-281: the rebalance loop
RECURSIVE delete_rebalance(_, _, _, _, _)
delete_rebalance(pol, h, p0, xpath, balance) ==
    LET climb(h1, p, b, placement) ==
            IF b = None THEN [h |-> h1, p |-> p]
            ELSE IF placement = NoPath
            THEN [h |-> Fail(h1, "find_placement: unwrap on equal keys"), p |-> p]
            ELSE delete_rebalance(pol, h1, b, placement, balance)
        sink(h1, p, path, new) ==
            IF new = None
            THEN [h |-> Fail(h1, "get_child: unwrap on None"), p |-> p]
            ELSE delete_rebalance(pol, [h1 EXCEPT !.anchored = TRUE, !.revisits = @ + 1],
                                  new, path, balance)
        continue(h1, p, next, b) ==
            CASE next.kind = "Root" -> [h |-> h1, p |-> p]
              [] next.kind = "Parent" ->
                    climb(h1, p, b, IF b # None THEN find_placement(h1.ar, b, p) ELSE NoPath)
              [] next.kind = "Child" ->
                    sink(h1, p, next.path, get_child(h1.ar, p, next.path))
        refreshed(h1, p, next) == continue(h1, p, next, get_parent(h1.ar, p))
        step(pos) ==
            IF ~Ok(pos.h) THEN [h |-> pos.h, p |-> pos.node]
            ELSE refreshed([pos.h EXCEPT !.ar = update(@, pos.node),
                                         !.anchored = FALSE,
                                         !.stray = @ \/ (h.anchored /\ pos.next.kind # "Root")],
                           pos.node, pos.next)
    IN  step(rebalance_delete(pol, h, p0, xpath, balance))

bst_delete(pol, ar, rt, key) ==
    LET xpath0 == search(ar, rt, key)
        settle(lp_h, top, ret) ==
            [h |-> [lp_h EXCEPT !.ar = top.ar], root |-> top.r, ret |-> ret]
        finish(lp, ret) ==
            IF Ok(lp.h) THEN settle(lp.h, refresh_ancestors(lp.h.ar, lp.p), ret)
            ELSE [h |-> lp.h, root |-> rt, ret |-> None]
        balance(sw) ==
            finish(IF Ok(sw.h)
                   THEN delete_rebalance(pol, sw.h, sw.p, sw.xpath, sw.balance)
                   ELSE [h |-> sw.h, p |-> sw.p],
                   sw.key)
        remove(d, to_swap, pop) ==
            IF pop.popped /\ xpath0 = NoPath
            THEN delete_root_popped(ar, rt, pop)
            ELSE balance(IF pop.popped
                         THEN [h |-> Heap(pop.ar), key |-> pop.key,
                               balance |-> pop.balance, p |-> d.p, xpath |-> d.xpath]
                         ELSE delete_swap(Heap(ar), to_swap, to_swap, Right))
        locate(d, slot) == remove(d, slot_get(ar, rt, slot), bst_pop(ar, rt, slot))
        descend(d) ==
            IF ~d.found THEN delete_not_found(ar, rt)
            ELSE locate(d, IF xpath0 # NoPath THEN Joint(d.p, d.xpath) ELSE RootHandle)
    IN  IF rt = None THEN [h |-> Heap(ar), root |-> None, ret |-> None]
        ELSE descend(IF xpath0 # NoPath THEN delete_descend(ar, rt, xpath0, key)
                     ELSE [found |-> TRUE, p |-> None, xpath |-> NoPath])

\* bst_search that looks at the root only
bst_search_mut(ar, next, key) ==
    IF next = None THEN FALSE ELSE search(ar, next, key) = NoPath

\* tree/ops.rs bst_search: walk down until the key or an empty child
RECURSIVE bst_search(_, _, _)
bst_search(ar, next, key) ==
    IF next = None THEN FALSE
    ELSE IF search(ar, next, key) = NoPath THEN TRUE
    ELSE bst_search(ar, get_child(ar, next, search(ar, next, key)), key)

\* ------------------------------------------------------------- AVL: branch-trait engine
\* Nodes of this engine have no parent reference, leaf count or balance
\* payload; those fields stay at their initial values.
avl_new_with(key) ==
    [key |-> key, height |-> 1, leaves |-> 1, parent |-> None,
     left |-> None, right |-> None, balance |-> NoBalance]

\* Option::take of the child link
avl_prune(ar, id, pos) ==
    [ar |-> set_joint(ar, id, pos, None), pruned |-> get_child(ar, id, pos)]

\* pheight - uheight > 1 on usize in a release build: a negative difference
\* wraps to 2^64 - (uheight - pheight), which exceeds 1 for every height a
\* tree can have
wrapping_sub_gt1(pheight, uheight) ==
    IF pheight >= uheight THEN pheight - uheight > 1 ELSE TRUE

\* avlnew.rs avl_check: a debug build panics on the underflow
avl_check(bld, ar, parent, uncle) ==
    LET uheight == get_height(ar, uncle)
        pheight == get_height(ar, parent)
    IN  IF pheight < uheight /\ bld = "debug"
        THEN [fault |-> "attempt to subtract with overflow", rebalance |-> FALSE]
        ELSE [fault |-> "none", rebalance |-> wrapping_sub_gt1(pheight, uheight)]

\* AVLBranch::rebalance(TreeOp::Insert(ppath, xpath))
avl_rebalance_insert(bld, ar, node, ppath, xpath) ==
    LET decide(c) ==
            [fault |-> c.fault, some |-> c.rebalance, ppath |-> ppath, xpath |-> xpath]
    IN  decide(avl_check(bld, ar, get_child(ar, node, ppath),
                         get_child(ar, node, reflect(ppath))))

\* AVLBranch::rebalance(TreeOp::Delete(upath))
avl_rebalance_delete(bld, ar, node, upath) ==
    LET ppath == reflect(upath)
        pnode == get_child(ar, node, ppath)
        xr_height == get_height(ar, ar[pnode].right)
        xpath == IF ar[pnode].left = None THEN Right
                 ELSE IF xr_height > ar[ar[pnode].left].height THEN Right ELSE Left
        decide(c) ==
            IF c.fault # "none" \/ ~c.rebalance
            THEN [fault |-> c.fault, some |-> FALSE, ppath |-> ppath, xpath |-> NoPath]
            ELSE IF pnode = None
            THEN [fault |-> "rebalance: unwrap on None", some |-> FALSE,
                  ppath |-> ppath, xpath |-> NoPath]
            ELSE [fault |-> "none", some |-> TRUE, ppath |-> ppath, xpath |-> xpath]
    IN  decide(avl_check(bld, ar, pnode, get_child(ar, node, upath)))

\* treenew/helper.rs bst_rotate: the two cells swap their contents, so the
\* cell p keeps its place under its owner and now holds the old child
helper_bst_rotate(h, p, direction) ==
    LET x == get_child(h.ar, p, direction)
        \* mem::swap of the two cells, then the links and the heights
        swap(v, a) ==
            update_height(
                update_height(
                    set_joint(set_joint([a EXCEPT ![p] = a[x], ![x] = a[p]],
                                        x, direction, v),
                              p, reflect(direction), x),
                    x),
                p)
        turn(pv) == [h EXCEPT !.ar = swap(pv.pruned, pv.ar), !.prims = @ + 1]
    IN  IF ~Ok(h) THEN h
        ELSE IF x = None THEN Fail(h, "bst_rotate: unwrap on empty child")
        ELSE turn(avl_prune(avl_prune(h.ar, p, direction).ar, x, reflect(direction)))

helper_bst_full_rotate(h, rnode, ppath, xpath) ==
    LET pnode == get_child(h.ar, rnode, ppath)
        h1 == IF xpath # ppath
              THEN IF pnode = None
                   THEN Fail(h, "bst_full_rotate: unwrap on None")
                   ELSE helper_bst_rotate(h, pnode, xpath)
              ELSE h
    IN  helper_bst_rotate([h1 EXCEPT !.rots = @ + 1], rnode, ppath)

helper_bst_pop(ar, rt, slot) ==
    LET consume(x, successor, a2) ==
            [popped |-> TRUE, ar |-> [i \in DOMAIN a2 \ {x} |-> a2[i]],
             root |-> IF slot.owner = None THEN successor ELSE rt,
             key |-> ar[x].key]
        hang(successor, a1) ==
            IF slot.owner = None THEN a1
            ELSE set_joint(a1, slot.owner, slot.path, successor)
        replace(x, pr2) == consume(x, pr2.pruned, hang(pr2.pruned, pr2.ar))
        either(x, pr1) == IF pr1.pruned = None THEN avl_prune(pr1.ar, x, Left) ELSE pr1
        take(x) ==
            IF ar[x].right # None /\ ar[x].left # None
            THEN [popped |-> FALSE, ar |-> ar, root |-> rt, key |-> None]
            ELSE replace(x, either(x, avl_prune(ar, x, Right)))
    IN  take(slot_get(ar, rt, slot))

\* helper.rs bst_insert lines 201-226: descend, recording (path, node) of
\* every ancestor above the new node's parent
RECURSIVE helper_insert_descend(_, _, _, _, _)
helper_insert_descend(ar, node_stack, xpath, pnode, key) ==
    LET xnode == get_child(ar, pnode, xpath)
        path == IF xnode # None THEN search(ar, xnode, key) ELSE NoPath
        n == fresh_id(ar, key)
    IN  IF xnode = None
        THEN [found |-> FALSE,
              ar |-> update_height(set_joint((n :> avl_new_with(key)) @@ ar, pnode, xpath, n), pnode),
              node_stack |-> node_stack, xpath |-> xpath]
        ELSE IF path = NoPath
        THEN [found |-> TRUE, ar |-> ar, node_stack |-> node_stack, xpath |-> xpath]
        ELSE helper_insert_descend(ar, Append(node_stack, <<xpath, pnode>>), path, xnode, key)

\* helper.rs bst_insert lines 228-238
RECURSIVE helper_insert_unwind(_, _, _, _)
helper_insert_unwind(bld, h, node_stack, xpath) ==
    LET top == node_stack[Len(node_stack)]
        ppath == top[1]
        node == top[2]
        apply(h1, rb) ==
            IF rb.fault # "none" THEN Fail(h1, rb.fault)
            ELSE IF rb.some THEN helper_bst_full_rotate(h1, node, rb.ppath, rb.xpath)
            ELSE h1
        check(a1) ==
            apply([h EXCEPT !.ar = a1, !.calls = @ + 1],
                  avl_rebalance_insert(bld, a1, node, ppath, xpath))
    IN  IF node_stack = <<>> \/ ~Ok(h) THEN h
        ELSE helper_insert_unwind(bld, check(update_height(h.ar, node)),
                                  SubSeq(node_stack, 1, Len(node_stack) - 1), ppath)

helper_bst_insert(bld, ar, rt, key) ==
    LET descend(d) ==
            IF d.found THEN [h |-> Heap(ar), root |-> rt]
            ELSE [h |-> helper_insert_unwind(bld, Heap(d.ar), d.node_stack, d.xpath),
                  root |-> rt]
        plant(n) == [h |-> Heap((n :> avl_new_with(key)) @@ ar), root |-> n]
    IN  IF rt = None THEN plant(fresh_id(ar, key))
        ELSE IF search(ar, rt, key) = NoPath THEN [h |-> Heap(ar), root |-> rt]
        ELSE descend(helper_insert_descend(ar, <<>>, search(ar, rt, key), rt, key))

\* helper.rs bst_delete lines 78-105: find the parent of the node to remove
RECURSIVE helper_delete_descend(_, _, _, _, _)
helper_delete_descend(ar, node_stack, xpath, pnode, key) ==
    LET xnode == get_child(ar, pnode, xpath)
        path == IF xnode # None THEN search(ar, xnode, key) ELSE NoPath
    IN  IF xnode = None
        THEN [found |-> FALSE, node_stack |-> node_stack, xpath |-> xpath, pnode |-> pnode]
        ELSE IF path = NoPath
        THEN [found |-> TRUE, node_stack |-> node_stack, xpath |-> xpath, pnode |-> pnode]
        ELSE helper_delete_descend(ar, Append(node_stack, <<xpath, pnode>>), path, xnode, key)

\* helper.rs bst_delete lines 128-151: walk to the bottom-left-most node of
\* the right subtree, recording the nodes walked through
RECURSIVE helper_swap_descend(_, _, _, _, _)
helper_swap_descend(ar, node_stack, xpath, pnode, swap_node) ==
    LET node == ar[swap_node].left
    IN  IF node = None
        THEN [node_stack |-> node_stack, xpath |-> xpath, pnode |-> pnode]
        ELSE helper_swap_descend(ar, Append(node_stack, <<xpath, pnode>>), Left, swap_node, node)

\* helper.rs bst_delete lines 166-174
RECURSIVE helper_delete_unwind(_, _, _)
helper_delete_unwind(bld, h, node_stack) ==
    LET top == node_stack[Len(node_stack)]
        ppath == top[1]
        node == top[2]
        apply(h1, rb) ==
            IF rb.fault # "none" THEN Fail(h1, rb.fault)
            ELSE IF rb.some THEN helper_bst_full_rotate(h1, node, rb.ppath, rb.xpath)
            ELSE h1
        check(a1) ==
            apply([h EXCEPT !.ar = a1, !.calls = @ + 1],
                  avl_rebalance_delete(bld, a1, node, ppath))
    IN  IF node_stack = <<>> \/ ~Ok(h) THEN h
        ELSE helper_delete_unwind(bld, check(update_height(h.ar, node)),
                                  SubSeq(node_stack, 1, Len(node_stack) - 1))

helper_bst_delete(bld, ar, rt, key) ==
    LET xpath0 == search(ar, rt, key)
        \* lines 153-164: the key of the popped node goes into the target
        written(sd, rk) ==
            IF ~Ok(rk.h) THEN [h |-> rk.h, root |-> rt, ret |-> None]
            ELSE [h |-> helper_delete_unwind(bld,
                            [rk.h EXCEPT !.ar = update_height(@, sd.pnode)],
                            sd.node_stack),
                  root |-> rt, ret |-> rk.key]
        swapped(sd, target, spop) ==
            written(sd, replace_key([Heap(spop.ar) EXCEPT !.swapped = TRUE],
                                    target, spop.key))
        swap(target, sd) ==
            swapped(sd, target, helper_bst_pop(ar, rt, Joint(sd.pnode, sd.xpath)))
        remove(d, target, pop) ==
            IF pop.popped
            THEN IF xpath0 = NoPath
                 THEN \* pnode_clone is None for the root: unwrap panics after the pop
                      [h |-> Fail(Heap(pop.ar), "pnode_clone: unwrap on None"),
                       root |-> pop.root, ret |-> None]
                 ELSE [h |-> helper_delete_unwind(bld,
                                 Heap(update_height(pop.ar, d.pnode)), d.node_stack),
                       root |-> rt, ret |-> pop.key]
            ELSE swap(target,
                      helper_swap_descend(ar, d.node_stack, Right, target,
                                          ar[target].right))
        locate(d, xtree) == remove(d, slot_get(ar, rt, xtree), helper_bst_pop(ar, rt, xtree))
        descend(d) ==
            IF ~d.found THEN [h |-> Heap(ar), root |-> rt, ret |-> None]
            ELSE locate(d, IF xpath0 # NoPath THEN Joint(d.pnode, d.xpath) ELSE RootHandle)
    IN  IF rt = None THEN [h |-> Heap(ar), root |-> None, ret |-> None]
        ELSE descend(IF xpath0 # NoPath
                     THEN helper_delete_descend(ar, <<>>, xpath0, rt, key)
                     ELSE [found |-> TRUE, node_stack |-> <<>>, xpath |-> NoPath,
                           pnode |-> None])

\* ------------------------------------------------------------- canonical numbering
RECURSIVE Subtree(_, _)
Subtree(ar, id) ==
    IF id = None \/ id \notin DOMAIN ar THEN {}
    ELSE {id} \cup Subtree(ar, ar[id].left) \cup Subtree(ar, ar[id].right)

\* Nodes no handle owns any more are dropped; every remaining node is
\* renumbered by the key it holds (when keys are distinct), and a parent
\* reference to a dropped node reads as None (Weak::upgrade)
Canon(ar, rt) ==
    LET live == Subtree(ar, rt)
        distinct == \A i, j \in live : ar[i].key = ar[j].key => i = j
        name(i) == IF i \in live THEN (IF distinct THEN ar[i].key ELSE i) ELSE None
        at(k) == CHOOSE i \in live : name(i) = k
    IN  [ar |-> [k \in {name(i) : i \in live} |->
                    [ar[at(k)] EXCEPT !.parent = name(@), !.left = name(@), !.right = name(@)]],
         root |-> name(rt)]

\* the keys held by the tree under the handle rt
KeySet(ar, rt) == {ar[i].key : i \in Subtree(ar, rt)}

\* ------------------------------------------------------------- public operations
EmptyArena == [i \in {} |-> avl_new_with(None)]

Policies == {"RedBlack", "Unbalanced", "AVL"}
Builds == {"debug", "release"}

\* What an operation leaves behind: the tree (canonically numbered), the
\* panic if one was raised, the returned value and the counters.  A panic
\* inside Tree::insert / Tree::delete of the generic engine unwinds while
\* self holds the Tree::new() put there by std::mem::replace.
Outcome(pol, r, ret) ==
    LET lost == ~Ok(r.h) /\ pol # "AVL"
        left(c) ==
            [nodes |-> IF lost THEN EmptyArena ELSE c.ar,
             root |-> IF lost THEN None ELSE c.root,
             fault |-> r.h.fault,
             ret |-> IF Ok(r.h) THEN ret ELSE None,
             calls |-> r.h.calls, rots |-> r.h.rots, prims |-> r.h.prims,
             swapped |-> r.h.swapped, revisits |-> r.h.revisits, stray |-> r.h.stray]
    IN  left(Canon(r.h.ar, r.root))

\* Tree::insert
tree_insert(pol, bld, ar, rt, key) ==
    Outcome(pol,
            IF pol = "AVL" THEN helper_bst_insert(bld, ar, rt, key)
            ELSE bst_insert(pol, ar, rt, key),
            None)

\* Tree::delete
tree_delete(pol, bld, ar, rt, key) ==
    LET returned(r) == Outcome(pol, r, r.ret)
    IN  returned(IF pol = "AVL" THEN helper_bst_delete(bld, ar, rt, key)
                 ELSE bst_delete(pol, ar, rt, key))

\* Tree::search
tree_search(ar, rt, key) == bst_search(ar, rt, key)

\* Tree::is_empty
tree_is_empty(rt) == rt = None

\* Tree::height
tree_height(ar, rt) == get_height(ar, rt)

\* Tree::leaves
tree_leaves(ar, rt) == get_leaves(ar, rt)

\* last records the operation just performed: its name and argument, the
\* value it returned, its counters, and whether the key was in the tree when
\* it started
Apply(op, key, o) ==
    /\ nodes' = o.nodes
    /\ root' = o.root
    /\ fault' = o.fault
    /\ last' = [op |-> op, key |-> key, ret |-> o.ret,
                calls |-> o.calls, rots |-> o.rots, prims |-> o.prims,
                swapped |-> o.swapped, revisits |-> o.revisits, stray |-> o.stray,
                present |-> key \in KeySet(nodes, root), found |-> FALSE,
                path |-> NoPath, cpath |-> NoPath]
    /\ UNCHANGED <<policy, build>>

Init ==
    /\ policy \in Policies
    /\ build \in Builds
    /\ nodes = EmptyArena
    /\ root = None
    /\ fault = "none"
    /\ last = [op |-> "new", key |-> None, ret |-> None,
               calls |-> 0, rots |-> 0, prims |-> 0, swapped |-> FALSE,
               present |-> FALSE, found |-> FALSE, path |-> NoPath, cpath |-> NoPath,
               revisits |-> 0, stray |-> FALSE]

Insert(k) ==
    /\ fault = "none"
    /\ Apply("insert", k, tree_insert(policy, build, nodes, root, k))

Delete(k) ==
    /\ fault = "none"
    /\ Apply("delete", k, tree_delete(policy, build, nodes, root, k))

\* a read-only call: the tree is left alone, last records the answer
Search(k) ==
    /\ fault = "none"
    /\ last' = [op |-> "search", key |-> k, ret |-> None,
                calls |-> 0, rots |-> 0, prims |-> 0, swapped |-> FALSE,
                present |-> k \in KeySet(nodes, root),
                found |-> tree_search(nodes, root, k), path |-> NoPath, cpath |-> NoPath,
               revisits |-> 0, stray |-> FALSE]
    /\ UNCHANGED <<policy, build, nodes, root, fault>>

\* a bare call of tree/ops.rs bst_rotate on the node p of the tree; the
\* caller keeps the returned node as the root handle when p was the root
Rotate(p, d) ==
    /\ fault = "none"
    /\ p \in DOMAIN nodes
    /\ LET turned(r, c) ==
               /\ nodes' = c.ar
               /\ root' = c.root
               /\ fault' = r.h.fault
               /\ last' = [op |-> "rotate", key |-> p,
                           ret |-> IF Ok(r.h) THEN r.node ELSE None,
                           calls |-> 0, rots |-> 0, prims |-> r.h.prims,
                           swapped |-> FALSE, present |-> TRUE, found |-> FALSE,
                           path |-> d, cpath |-> NoPath,
                           revisits |-> 0, stray |-> FALSE]
           rotated(r) == turned(r, Canon(r.h.ar, IF p = root THEN r.node ELSE root))
       IN  rotated(bst_rotate(Heap(nodes), p, d))
    /\ UNCHANGED <<policy, build>>

\* a bare call of NodeInspector::from(p).rotate((a, b)) on the node p of the
\* tree; the caller keeps the returned node as the root handle when p was
\* the root
InspectorRotate(p, a, b) ==
    /\ fault = "none"
    /\ p \in DOMAIN nodes
    /\ LET turned(r, c) ==
               /\ nodes' = c.ar
               /\ root' = c.root
               /\ fault' = r.h.fault
               /\ last' = [op |-> "inspector_rotate", key |-> p,
                           ret |-> IF Ok(r.h) THEN r.node ELSE None,
                           calls |-> 0, rots |-> r.h.rots, prims |-> r.h.prims,
                           swapped |-> FALSE, present |-> TRUE, found |-> FALSE,
                           path |-> a, cpath |-> b,
                           revisits |-> 0, stray |-> FALSE]
           rotated(r) == turned(r, Canon(r.h.ar, IF p = root THEN r.node ELSE root))
       IN  rotated(rotate(Heap(nodes), p, a, b))
    /\ UNCHANGED <<policy, build>>

Next == \E k \in Keys : Insert(k) \/ Delete(k)

Spec == Init /\ [][Next]_vars

\* AVL trees grown by insertion only, over the larger key universe
InitAVL == Init /\ policy = "AVL"

NextAVLInsert == \E k \in KeysAVL : Insert(k)

SpecAVLInsert == InitAVL /\ [][NextAVLInsert]_vars

\* trees grown from the empty tree by insertion only, every policy
NextInsert == \E k \in Keys : Insert(k)

SpecInsert == Init /\ [][NextInsert]_vars

\* inserts, deletes and searches interleaved, over a smaller key universe
NextQuery == \E k \in KeysQuery : Insert(k) \/ Delete(k) \/ Search(k)

SpecQuery == Init /\ [][NextQuery]_vars

\* every shape of binary search tree, by plain insertion, with bst_rotate
\* called on any node along any side
InitRotate == Init /\ policy = "Unbalanced"

NextRotate ==
    \E k \in KeysInspect : Insert(k) \/ (\E d \in {Left, Right} : Rotate(k, d))

SpecRotate == InitRotate /\ [][NextRotate]_vars

\* every shape of binary search tree, by plain insertion, with the
\* inspector's rotate called on any node with any case
NextInspect ==
    \E k \in KeysInspect :
        Insert(k) \/ (\E a, b \in {Left, Right} : InspectorRotate(k, a, b))

SpecInspect == InitRotate /\ [][NextInspect]_vars

\* trees kept by the revisiting policy
InitRevisit ==
    /\ policy = "Revisit"
    /\ build \in Builds
    /\ nodes = EmptyArena
    /\ root = None
    /\ fault = "none"
    /\ last = [op |-> "new", key |-> None, ret |-> None,
               calls |-> 0, rots |-> 0, prims |-> 0, swapped |-> FALSE,
               present |-> FALSE, found |-> FALSE, path |-> NoPath, cpath |-> NoPath,
               revisits |-> 0, stray |-> FALSE]

NextRevisit == \E k \in KeysQuery : Insert(k) \/ Delete(k)

SpecRevisit == InitRevisit /\ [][NextRevisit]_vars

\* ------------------------------------------------------------- observations
RECURSIVE InOrder(_, _)
InOrder(ar, id) ==
    IF id = None THEN <<>>
    ELSE InOrder(ar, ar[id].left) \o <<ar[id].key>> \o InOrder(ar, ar[id].right)

StrictlyIncreasing(s) == \A i \in 1..(Len(s) - 1) : s[i] < s[i + 1]

Returned == fault = "none"

IsRedBlack == policy = "RedBlack"

Color(ar, id) == IF id = None THEN Black ELSE ar[id].balance

\* Black nodes on the leftmost path from id down to an empty slot
RECURSIVE BlackHeight(_, _)
BlackHeight(ar, id) ==
    IF id = None THEN 0
    ELSE BlackHeight(ar, ar[id].left) + (IF ar[id].balance = Black THEN 1 ELSE 0)

\* every root-to-empty-slot path below id has the same number of Black nodes
BlackBalanced(ar, rt) ==
    \A i \in Subtree(ar, rt) :
        BlackHeight(ar, ar[i].left) = BlackHeight(ar, ar[i].right)

NoRedRed(ar, rt) ==
    \A i \in Subtree(ar, rt) :
        ar[i].balance = Red =>
            Color(ar, ar[i].left) = Black /\ Color(ar, ar[i].right) = Black

\* true height of the subtree at id, from the links (not the cache)
RECURSIVE TrueHeight(_, _)
TrueHeight(ar, id) ==
    IF id = None THEN 0
    ELSE 1 + Max(TrueHeight(ar, ar[id].left), TrueHeight(ar, ar[id].right))

AVLBalanced(ar, rt) ==
    \A i \in Subtree(ar, rt) :
        LET l == TrueHeight(ar, ar[i].left)
            r == TrueHeight(ar, ar[i].right)
        IN  l - r <= 1 /\ r - l <= 1

\* every cached height agrees with the cached heights of the current children
HeightsCached(ar, rt) ==
    \A i \in Subtree(ar, rt) :
        ar[i].height = 1 + Max(get_height(ar, ar[i].left), get_height(ar, ar[i].right))

\* childless nodes in the subtree at id, from the links
TrueLeaves(ar, id) ==
    Cardinality({i \in Subtree(ar, id) : ar[i].left = None /\ ar[i].right = None})

LeavesCached(ar, rt) == \A i \in Subtree(ar, rt) : ar[i].leaves = TrueLeaves(ar, i)

\* the handle's node has no parent; every child refers back to its holder
ParentsConsistent(ar, rt) ==
    /\ rt # None => get_parent(ar, rt) = None
    /\ \A i \in Subtree(ar, rt) :
          \A c \in {ar[i].left, ar[i].right} \ {None} : get_parent(ar, c) = i

\* the balance invariant of the policy: the three Red-Black invariants, the
\* AVL height condition, nothing for Unbalanced
PolicyInvariant(pol, ar, rt) ==
    CASE pol = "RedBlack" ->
            /\ rt # None => ar[rt].balance = Black
            /\ NoRedRed(ar, rt)
            /\ BlackBalanced(ar, rt)
      [] pol = "AVL" -> AVLBalanced(ar, rt)
      [] OTHER -> TRUE

\* the child links of the tree: <<holder, side, child>>
Links(ar, rt) ==
    {<<i, Left, ar[i].left>> : i \in {j \in Subtree(ar, rt) : ar[j].left # None}}
    \cup {<<i, Right, ar[i].right>> : i \in {j \in Subtree(ar, rt) : ar[j].right # None}}

\* the children of node i
Children(ar, i) == {ar[i].left, ar[i].right} \ {None}

\* the engine of tree/ops.rs drives these policies
GenericEngine == policy \in {"RedBlack", "Unbalanced"}

\* ------------------------------------------------------------- test scenario
\* manual_rb_check_delete / delete_recolor / delete_child_red: the keys
\* 40, 50, 60, 70, 90, 80 by rank, and the trees the test passes through
ScenarioInserts == <<1, 2, 3, 4, 6, 5>>

RECURSIVE Grown(_, _)
Grown(pol, s) ==
    LET onto(t) == tree_insert(pol, "release", t.nodes, t.root, s[Len(s)])
    IN  IF s = <<>>
        THEN [nodes |-> EmptyArena, root |-> None, fault |-> "none"]
        ELSE onto(Grown(pol, SubSeq(s, 1, Len(s) - 1)))

Without(t, k) == tree_delete("RedBlack", "release", t.nodes, t.root, k)

Scenario0 == Grown("RedBlack", ScenarioInserts)
Scenario1 == Without(Scenario0, 6)
Scenario2 == Without(Scenario1, 5)

\* the tree is t and the step deletes k
DeletesFrom(t, k) ==
    /\ policy = "RedBlack"
    /\ nodes = t.nodes /\ root = t.root
    /\ last'.op = "delete" /\ last'.key = k

\* ------------------------------------------------------------- claims
\* C1: for every policy, after any sequence of inserts and deletes from the
\* empty tree the in-order traversal of the tree is strictly increasing.
C1_BSTOrdered == Returned => StrictlyIncreasing(InOrder(nodes, root))

\* a two-child delete (key swapped in) that also rotated
C1_Witness ==
    /\ Returned
    /\ last.op = "delete" /\ last.swapped /\ last.prims > 0
    /\ Cardinality(DOMAIN nodes) >= 3

\* C2: after every public operation on a Red-Black tree the root, if any, is
\* Black, also after deleting a root that has fewer than two children.
C2_RootBlack ==
    (IsRedBlack /\ Returned /\ root # None) => nodes[root].balance = Black

\* C3: after every public operation on a Red-Black tree no Red node has a
\* Red child.
C3_NoRedRed == (IsRedBlack /\ Returned) => NoRedRed(nodes, root)

\* C4: after every public operation on a Red-Black tree every path from the
\* root to an empty child slot holds the same number of Black nodes.
C4_BlackBalanced == (IsRedBlack /\ Returned) => BlackBalanced(nodes, root)

\* a delete that popped a Black node and rotated to restore the Black count
C4_Witness ==
    /\ IsRedBlack /\ Returned
    /\ last.op = "delete" /\ last.ret # None /\ last.rots > 0
    /\ \E i \in DOMAIN nodes : i # root /\ nodes[i].balance = Black

\* C5: AVL insert preserves balance: from a tree in which every node has
\* |height(left) - height(right)| <= 1, insert(k) leaves such a tree.
C5_InsertKeepsBalance ==
    [][(/\ policy = "AVL"
        /\ AVLBalanced(nodes, root)
        /\ last'.op = "insert"
        /\ fault' = "none") => AVLBalanced(nodes', root')]_vars

\* C6: AVL delete preserves balance: from a tree in which every node has
\* |height(left) - height(right)| <= 1, delete(k) of a present key leaves
\* such a tree.
C6_DeleteKeepsBalance ==
    [][(/\ policy = "AVL"
        /\ AVLBalanced(nodes, root)
        /\ last'.op = "delete"
        /\ last'.key \in KeySet(nodes, root)
        /\ fault' = "none") => AVLBalanced(nodes', root')]_vars

C8_AbsentDeleteNoOp ==
    [][(/\ last'.op = "delete"
        /\ last'.key \notin KeySet(nodes, root))
       => (/\ fault' = "none"
           /\ last'.ret = None
           /\ nodes' = nodes
           /\ root' = root)]_vars

\* an absent-key delete on a tree of several nodes
C8_Witness ==
    /\ Returned
    /\ last.op = "delete" /\ ~last.present /\ last.ret = None
    /\ Cardinality(DOMAIN nodes) >= 3

\* C9: insert(k) of a key already present adds no node, invokes no rebalance
\* callback and leaves shape, keys, cached height/leaves and balance-states
\* unchanged.
C9_DuplicateInsertNoOp ==
    [][(/\ last'.op = "insert"
        /\ last'.key \in KeySet(nodes, root))
       => (/\ fault' = "none"
           /\ last'.calls = 0
           /\ nodes' = nodes
           /\ root' = root)]_vars

\* a duplicate insert of a key held below the root
C9_Witness ==
    /\ Returned
    /\ last.op = "insert" /\ last.present
    /\ last.key # nodes[root].key
    /\ Cardinality(DOMAIN nodes) >= 3

\* C10: after insert(k) on a tree with key set S the key set is S \cup {k},
\* whatever rotations the policy performed.
C10_InsertKeySet ==
    [][(/\ last'.op = "insert"
        /\ fault' = "none")
       => KeySet(nodes', root') = KeySet(nodes, root) \cup {last'.key}]_vars

\* an insert of a new key that made a double rotation
C10_Witness ==
    /\ Returned
    /\ last.op = "insert" /\ ~last.present /\ last.prims = 2
    /\ last.key \in KeySet(nodes, root)

C12_HeightCached ==
    (GenericEngine /\ Returned)
        => (/\ HeightsCached(nodes, root)
            /\ tree_height(nodes, root) = TrueHeight(nodes, root))

\* a delete that rotated and left a tree three levels deep
C12_Witness ==
    /\ GenericEngine /\ Returned
    /\ last.op = "delete" /\ last.ret # None /\ last.prims > 0
    /\ tree_height(nodes, root) >= 3

\* C13: after every public operation returns, every node's cached leaves
\* value is the number of childless nodes in its subtree, so Tree::leaves()
\* is the number of leaf nodes of the tree, 0 for the empty tree.
C13_LeavesCached ==
    (GenericEngine /\ Returned)
        => (/\ LeavesCached(nodes, root)
            /\ tree_leaves(nodes, root) = TrueLeaves(nodes, root))

\* a delete below the root that popped a node and left several leaves
C13_Witness ==
    /\ GenericEngine /\ Returned
    /\ last.op = "delete" /\ last.ret # None /\ ~last.swapped /\ last.calls > 0
    /\ tree_leaves(nodes, root) >= 2
    /\ Cardinality(DOMAIN nodes) >= 4

\* C14: after every public operation returns, every non-root node's parent
\* back-reference designates the node holding it as a child, and the node
\* held by the tree handle has an empty parent reference.
C14_ParentsConsistent ==
    (GenericEngine /\ Returned) => ParentsConsistent(nodes, root)

\* a delete that popped the root, or rotated at it, and left several nodes
C14_Witness ==
    /\ GenericEngine /\ Returned
    /\ last.op = "delete" /\ last.ret # None
    /\ root # None /\ nodes[root].key # last.ret
    /\ (last.prims > 0 \/ last.calls = 0)
    /\ Cardinality(DOMAIN nodes) >= 3

\* C15: for any tree T reachable by inserts and deletes and any key k,
\* insert(k) followed by delete(k) yields a tree whose key set is
\* (keys(T) \cup {k}) \ {k} and which still satisfies the policy's balance
\* invariant.
C15_InsertThenDelete ==
    (Returned /\ PolicyInvariant(policy, nodes, root)) =>
        \A k \in Keys :
            LET deleted(b) ==
                    /\ b.fault = "none"
                    /\ KeySet(b.nodes, b.root) = (KeySet(nodes, root) \cup {k}) \ {k}
                    /\ PolicyInvariant(policy, b.nodes, b.root)
                inserted(a) ==
                    a.fault = "none" =>
                        deleted(tree_delete(policy, build, a.nodes, a.root, k))
            IN  inserted(tree_insert(policy, build, nodes, root, k))

\* C16: is_empty() is true exactly when the tree holds no keys: true for a
\* new tree, false after any insert, and true again once every key has been
\* deleted, the emptied tree having height() = 0 and leaves() = 0.
C16_IsEmpty ==
    [][GenericEngine =>
        /\ tree_is_empty(root) <=> KeySet(nodes, root) = {}
        /\ fault' = "none" => (tree_is_empty(root') <=> KeySet(nodes', root') = {})
        /\ (last'.op = "insert" /\ fault' = "none") => ~tree_is_empty(root')
        /\ (last'.op = "delete" /\ KeySet(nodes, root) \subseteq {last'.key})
              => (/\ fault' = "none"
                  /\ tree_is_empty(root')
                  /\ tree_height(nodes', root') = 0
                  /\ tree_leaves(nodes', root') = 0)]_vars

\* the last key of a tree has just been deleted
C16_Witness ==
    /\ GenericEngine /\ Returned
    /\ last.op = "delete" /\ last.ret = last.key /\ last.key # None
    /\ tree_is_empty(root)

\* C17: for the AVL and the Red-Black policy, inserting three distinct keys
\* in any order into an empty tree yields a tree of height 2; a single or
\* double rotation is made exactly when the third key would extend a chain.
C17_ThreeKeysHeightTwo ==
    [][(/\ policy \in {"AVL", "RedBlack"}
        /\ Cardinality(KeySet(nodes, root)) = 2
        /\ last'.op = "insert"
        /\ last'.key \notin KeySet(nodes, root))
       => LET r == nodes[root].key
              c == CHOOSE x \in KeySet(nodes, root) : x # r
              k == last'.key
              chain == (k < r) <=> (c < r)
              elbow == (k < c) <=> (r < c)
          IN  /\ fault' = "none"
              /\ tree_height(nodes', root') = 2
              /\ TrueHeight(nodes', root') = 2
              /\ last'.prims = IF ~chain THEN 0 ELSE IF elbow THEN 2 ELSE 1]_vars

\* a third insert that made a double rotation
C17_Witness ==
    /\ policy \in {"AVL", "RedBlack"} /\ Returned
    /\ last.op = "insert" /\ last.prims = 2
    /\ Cardinality(DOMAIN nodes) = 3
    /\ tree_height(nodes, root) = 2

\* C18: from an empty Red-Black tree, insert 40, 50, 60, 70, 90, 80, then
\* delete 90, 80, 40: each delete returns Some of its key, the three
\* Red-Black invariants hold after each, the height is 3 after 90 and 80 are
\* gone and 2 after 40 is gone too, and the keys left are {50, 60, 70}.
C18_DeleteScenario ==
    [][/\ Scenario0.fault = "none" /\ Scenario1.fault = "none" /\ Scenario2.fault = "none"
       /\ DeletesFrom(Scenario0, 6) =>
              /\ fault' = "none" /\ last'.ret = 6
              /\ PolicyInvariant("RedBlack", nodes', root')
       /\ DeletesFrom(Scenario1, 5) =>
              /\ fault' = "none" /\ last'.ret = 5
              /\ PolicyInvariant("RedBlack", nodes', root')
              /\ tree_height(nodes', root') = 3
       /\ DeletesFrom(Scenario2, 1) =>
              /\ fault' = "none" /\ last'.ret = 1
              /\ PolicyInvariant("RedBlack", nodes', root')
              /\ tree_height(nodes', root') = 2
              /\ KeySet(nodes', root') = {2, 3, 4}]_vars

\* the tree the scenario ends in, just after its last delete
C18_Witness ==
    /\ IsRedBlack /\ Returned
    /\ last.op = "delete" /\ last.key = 1 /\ last.ret = 1
    /\ nodes = Without(Scenario2, 1).nodes
    /\ root = Without(Scenario2, 1).root

\* C19: with the Unbalanced policy no rotation is ever performed: an insert
\* hangs the new key at the empty slot plain BST insertion finds and changes
\* no other link, so n strictly increasing keys give height n, and deleting
\* a node with one child puts that child in its place.
C19_UnbalancedPlain ==
    [][policy = "Unbalanced" =>
        LET k == last'.key
            keys == KeySet(nodes, root)
            only == CHOOSE c \in Children(nodes, k) : TRUE
        IN  /\ fault' = "none" /\ last'.rots = 0 /\ last'.prims = 0
            /\ (last'.op = "insert" /\ k \notin keys /\ root # None) =>
                  /\ root' = root
                  /\ \E p \in DOMAIN nodes : \E side \in {Left, Right} :
                        Links(nodes', root') = Links(nodes, root) \cup {<<p, side, k>>}
                  /\ StrictlyIncreasing(InOrder(nodes', root'))
            /\ (/\ last'.op = "insert"
                /\ \A x \in keys : x < k
                /\ \A i \in Subtree(nodes, root) : nodes[i].left = None) =>
                  /\ tree_height(nodes', root') = Cardinality(keys) + 1
                  /\ \A i \in Subtree(nodes', root') : nodes'[i].left = None
            /\ (/\ last'.op = "delete" /\ k \in keys
                /\ Cardinality(Children(nodes, k)) = 1) =>
                  /\ last'.ret = k
                  /\ root' = IF root = k THEN only ELSE root
                  /\ Links(nodes', root') =
                        {IF l[3] = k THEN <<l[1], l[2], only>> ELSE l :
                            l \in {m \in Links(nodes, root) : m[1] # k}}]_vars

\* four increasing keys inserted one after the other: a chain of height 4
C19_Witness ==
    /\ policy = "Unbalanced" /\ Returned
    /\ last.op = "insert" /\ ~last.present
    /\ Cardinality(DOMAIN nodes) = 4
    /\ tree_height(nodes, root) = 4
    /\ \A i \in DOMAIN nodes : nodes[i].left = None

\* C20: bst_rotate(p, d), with x = p's child along d and v = x's child along
\* reflect(d): afterwards v is p's child along d, p is x's child along
\* reflect(d), x occupies p's former slot under p's former parent (or has an
\* empty parent if p was the root), the parent references of v, p and x
\* match these links, every other link is unchanged, the in-order key
\* sequence is unchanged, and x is returned.
C20_RotateEffect ==
    [][(last'.op = "rotate" /\ get_child(nodes, last'.key, last'.path) # None) =>
        LET p == last'.key
            d == last'.path
            x == get_child(nodes, p, d)
            v == get_child(nodes, x, reflect(d))
            g == get_parent(nodes, p)
            gone == {<<p, d, x>>, <<x, reflect(d), v>>,
                     <<g, Left, p>>, <<g, Right, p>>}
            came == {<<x, reflect(d), p>>}
                    \cup (IF v # None THEN {<<p, d, v>>} ELSE {})
                    \cup (IF g # None
                          THEN {<<g, IF nodes[g].left = p THEN Left ELSE Right, x>>}
                          ELSE {})
        IN  /\ fault' = "none"
            /\ last'.ret = x
            /\ get_child(nodes', p, d) = v
            /\ get_child(nodes', x, reflect(d)) = p
            /\ Links(nodes', root') = (Links(nodes, root) \ gone) \cup came
            /\ root' = IF g = None THEN x ELSE root
            /\ get_parent(nodes', x) = g
            /\ get_parent(nodes', p) = x
            /\ v # None => get_parent(nodes', v) = p
            /\ \A i \in DOMAIN nodes \ {v, p, x} :
                  get_parent(nodes', i) = get_parent(nodes, i)
            /\ DOMAIN nodes' = DOMAIN nodes
            /\ \A i \in DOMAIN nodes : nodes'[i].key = nodes[i].key
            /\ InOrder(nodes', root') = InOrder(nodes, root)]_vars

\* a rotation below the root that moved a grandchild across
C20_Witness ==
    /\ Returned
    /\ last.op = "rotate" /\ last.ret # None
    /\ nodes[last.ret].parent # None
    /\ get_child(nodes, last.key, last.path) # None

\* the caches of node i agree with update() applied to its present children
CachesFresh(ar, i) ==
    /\ ar[i].height = Max(get_height(ar, ar[i].left), get_height(ar, ar[i].right)) + 1
    /\ ar[i].leaves = Max(1, get_leaves(ar, ar[i].left) + get_leaves(ar, ar[i].right))

\* C21: when the rotation primitive returns, both the pivot p and the
\* rotated-up node x have cached height and leaves equal to the formula
\* applied to their post-rotation children, so the node returned as the new
\* subtree root reports a correct height.
C21_RotateRefreshesBoth ==
    [][(last'.op = "rotate" /\ get_child(nodes, last'.key, last'.path) # None) =>
        /\ fault' = "none"
        /\ CachesFresh(nodes', last'.key)
        /\ CachesFresh(nodes', last'.ret)]_vars

\* the side of its parent that node i hangs on
SideOf(ar, i) == IF ar[get_parent(ar, i)].left = i THEN Left ELSE Right

\* C22: NodeInspector::rotate((a, b)) performs one primitive rotation of the
\* node toward its a-side child when a = b; when a # b it first rotates the
\* node's a-side child (bringing up that child's b-side child) and then the
\* node itself; in both cases the returned inspector is anchored at the node
\* that is the subtree root after the rotation(s), in the original node's
\* slot.
C22_InspectorRotate ==
    [][(/\ last'.op = "inspector_rotate"
        /\ get_child(nodes, last'.key, last'.path) # None
        /\ last'.path # last'.cpath =>
              get_child(nodes, get_child(nodes, last'.key, last'.path), last'.cpath) # None) =>
        LET n == last'.key
            a == last'.path
            b == last'.cpath
            c == get_child(nodes, n, a)
            y == IF a = b THEN c ELSE get_child(nodes, c, b)
            g == get_parent(nodes, n)
        IN  /\ fault' = "none"
            /\ last'.rots = 1
            /\ last'.prims = IF a = b THEN 1 ELSE 2
            /\ last'.ret = y
            /\ get_parent(nodes', y) = g
            /\ IF g = None THEN root' = y
               ELSE root' = root /\ get_child(nodes', g, SideOf(nodes, n)) = y
            /\ Subtree(nodes', y) = Subtree(nodes, n)
            /\ a = b =>
                  /\ get_child(nodes', c, reflect(a)) = n
                  /\ get_child(nodes', c, a) = get_child(nodes, c, a)
                  /\ get_child(nodes', n, a) = get_child(nodes, c, reflect(a))
                  /\ get_child(nodes', n, reflect(a)) = get_child(nodes, n, reflect(a))
            /\ a # b =>
                  /\ get_child(nodes', y, a) = c
                  /\ get_child(nodes', y, b) = n
                  /\ get_child(nodes', c, b) = get_child(nodes, y, a)
                  /\ get_child(nodes', c, a) = get_child(nodes, c, a)
                  /\ get_child(nodes', n, a) = get_child(nodes, y, b)
                  /\ get_child(nodes', n, b) = get_child(nodes, n, b)
            /\ InOrder(nodes', root') = InOrder(nodes, root)]_vars

\* a double rotation below the root has returned
C22_Witness ==
    /\ Returned
    /\ last.op = "inspector_rotate" /\ last.path # last.cpath
    /\ last.prims = 2 /\ last.ret # None
    /\ nodes[last.ret].parent # None

\* the fatal conditions of a rotation asked for on an absent child and of an
\* unwrap of an absent inspected child
RotationFaults ==
    {"bst_rotate: unwrap on empty child", "rotate: unwrap on empty child",
     "inspect_child: unwrap on None"}

\* C23: under the Red-Black policy, for every sequence of inserts and deletes
\* from the empty tree, no rebalance callback asks for a rotation on a side
\* whose child is absent and no unwrap of an inspected child fails.
C23_NoFatalRotation == IsRedBlack => fault \notin RotationFaults

\* a delete that rotated twice (Red sibling, then the re-anchored fixup) has
\* returned
C23_Witness ==
    /\ IsRedBlack /\ Returned
    /\ last.op = "delete" /\ last.rots = 2

\* the two assert_ne! of replace_key
ReplaceKeyFaults ==
    {"replace_key: assertion failed (left)", "replace_key: assertion failed (right)"}

\* the least key of the subtree at i
RECURSIVE LeastKey(_, _)
LeastKey(ar, i) == IF ar[i].left = None THEN ar[i].key ELSE LeastKey(ar, ar[i].left)

RECURSIVE Leftmost(_, _)
Leftmost(ar, i) == IF ar[i].left = None THEN i ELSE Leftmost(ar, ar[i].left)

C26_InsertChildReanchors ==
    [][last'.op = "insert" =>
        /\ fault' # "Should not happen!"
        /\ KeySet(nodes', root') = KeySet(nodes, root) \cup {last'.key}]_vars

\* the number of nodes from i up to the root, i included
RECURSIVE Depth(_, _)
Depth(ar, i) == IF i = None THEN 0 ELSE 1 + Depth(ar, get_parent(ar, i))

\* C27: every insert and delete under the Red-Black policy terminates: the
\* up-traversal invokes the callback at most once per ancestor on the path
\* to the root plus at most one extra invocation after a Child(removed_side)
\* re-anchor, and the callback invoked right after a Child re-anchor always
\* returns Root.
C27_RedBlackTerminates ==
    [][(IsRedBlack /\ last'.op \in {"insert", "delete"}) =>
        LET k == last'.key
            \* the parent of the slot the new key goes to
            slot_parent(d) == d.p
            \* the node a delete takes out of the tree
            removed == IF nodes[k].left # None /\ nodes[k].right # None
                       THEN Leftmost(nodes, nodes[k].right) ELSE k
        IN  /\ fault' = "none"
            /\ last'.revisits <= 1
            /\ ~last'.stray
            /\ last'.op = "delete" => last'.revisits <= last'.rots
            /\ last'.op = "insert" => last'.revisits = 0
            /\ last'.calls <=
                  IF ~last'.present
                  THEN IF last'.op = "insert" /\ root # None
                       THEN Depth(nodes, get_parent(nodes,
                                    slot_parent(insert_descend(nodes, root, k))))
                       ELSE 0
                  ELSE IF last'.op = "delete"
                       THEN Depth(nodes, get_parent(nodes, removed)) + last'.revisits
                       ELSE 0]_vars

\* a delete that re-anchored at a child and so made one callback more than
\* the removed node had ancestors
C27_Witness ==
    /\ IsRedBlack /\ Returned
    /\ last.op = "delete" /\ last.revisits = 1 /\ last.calls >= 2

\* C28: under the Red-Black policy, when the node structurally popped was
\* Red, the delete callback returns Root on its first invocation without any
\* rotation or recolouring: apart from the removed node and the refreshed
\* caches, the tree's shape and every remaining node's colour are unchanged.
C28_RedPopNoFixup ==
    [][(/\ IsRedBlack /\ last'.op = "delete" /\ last'.present
        /\ LET k == last'.key
           IN  nodes[IF nodes[k].left # None /\ nodes[k].right # None
                     THEN Leftmost(nodes, nodes[k].right) ELSE k].balance = Red) =>
        LET t == last'.key
            two == nodes[t].left # None /\ nodes[t].right # None
            s == IF two THEN Leftmost(nodes, nodes[t].right) ELSE t
            \* the child that takes the removed node's slot
            heir == IF nodes[s].right # None THEN nodes[s].right ELSE nodes[s].left
            \* the target of a two-child delete is known by its new key
            ren(i) == IF two /\ i = t THEN s ELSE i
            after(c) == IF c = s THEN heir ELSE ren(c)
        IN  /\ fault' = "none"
            /\ last'.calls = IF get_parent(nodes, s) = None THEN 0 ELSE 1
            /\ last'.rots = 0 /\ last'.prims = 0 /\ last'.revisits = 0
            /\ root' = after(root)
            /\ Subtree(nodes', root') = Subtree(nodes, root) \ {t}
            /\ \A i \in Subtree(nodes, root) \ {s} :
                  /\ nodes'[ren(i)].balance = nodes[i].balance
                  /\ nodes'[ren(i)].left = after(nodes[i].left)
                  /\ nodes'[ren(i)].right = after(nodes[i].right)
                  /\ nodes'[ren(i)].key = IF two /\ i = t THEN nodes[s].key
                                          ELSE nodes[i].key]_vars

\* a Red leaf was removed from beside its Red sibling under a Black parent,
\* with one callback and no rotation
C28_Witness ==
    /\ IsRedBlack /\ Returned /\ root # None
    /\ last.op = "delete" /\ last.present /\ ~last.swapped
    /\ last.calls = 1 /\ last.rots = 0
    /\ LET beside(d) ==
               /\ ~d.found
               /\ nodes[d.p].balance = Black
               /\ get_child(nodes, d.p, reflect(d.xpath)) # None
               /\ nodes[get_child(nodes, d.p, reflect(d.xpath))].balance = Red
       IN  beside(insert_descend(nodes, root, last.key))

\* C29: during the AVL insert up-traversal, at every ancestor where the
\* balance check runs, the height of the child on the insertion side is at
\* least the height of the child on the opposite (uncle) side, so the
\* unsigned subtraction pheight - uheight in avl_check never underflows, for
\* every AVL tree and every inserted key.
C29_InsertSideNotShorter ==
    [][(/\ policy = "AVL" /\ build = "debug"
        /\ AVLBalanced(nodes, root) /\ HeightsCached(nodes, root)
        /\ last'.op = "insert") =>
        fault' # "attempt to subtract with overflow"]_vars

\* C30: under the Red-Black policy the number of rotations per operation is
\* bounded independently of the size of the tree: one insert performs at
\* most one inspector rotate call (at most 2 primitive rotations) and one
\* delete at most two inspector rotate calls (at most 3 primitive rotations).
C30_RotationsBounded ==
    IsRedBlack =>
        /\ last.op = "insert" => last.rots <= 1 /\ last.prims <= 2
        /\ last.op = "delete" => last.rots <= 2 /\ last.prims <= 3
        /\ last.prims <= 2 * last.rots

\* a delete that used both of its rotate calls and all three primitive
\* rotations
C30_Witness ==
    /\ IsRedBlack /\ Returned
    /\ last.op = "delete" /\ last.rots = 2 /\ last.prims = 3

====
